---- MODULE Spec2Model ----
(***************************************************************************)
(* The prediction-serving process of health-insurance-mlops: app/api.py    *)
(* (schema validation, startup, /health, /predict), src/predict.py (the    *)
(* monitored executor) and src/utils.py (re-validation, metrics, audit     *)
(* log).                                                                   *)
(*                                                                         *)
(* A request body is a function from the keys it carries to their values   *)
(* (a JSON object).  Strings are sequences of one-character strings, so    *)
(* that str.lower() is computed character by character.  A float is a      *)
(* record [nan, val]: comparisons with NaN are false, as in Python.        *)
(***************************************************************************)
EXTENDS Integers, Sequences, FiniteSets, TLC

VARIABLES
    phase,                   \* "starting" | "serving" | "failed"
    model,                   \* the module-level global `model` of app/api.py
    pc,                      \* per request slot: position in the request
    raw,                     \* per slot: the JSON body as submitted
    data,                    \* per slot: input_data.dict() after validation
    called,                  \* per slot: model.predict was invoked on data
    result,                  \* per slot: outcome of predict(model, data)
    resp,                    \* per slot: the HTTP response
    running,                 \* slot whose handler the event loop executes, or 0
    received,                \* number of POST /predict requests received
    PREDICTION_COUNTER,
    PREDICTION_LATENCY,      \* number of observations in the histogram
    DATA_VALIDATION_ERRORS,
    auditLog,                \* entries written by log_model_access
    healthResp               \* outcome of the last GET /health

vars == <<phase, model, pc, raw, data, called, result, resp, running,
          received, PREDICTION_COUNTER, PREDICTION_LATENCY,
          DATA_VALIDATION_ERRORS, auditLog, healthResp>>

---------------------------------------------------------------------------
(* Bounds *)

MaxRequests == 3
MaxRequestsSeq == 2

Slots == {1, 2}

---------------------------------------------------------------------------
(* Strings *)

UpperChars == <<"A","B","C","D","E","F","G","H","I","J","K","L","M",
                "N","O","P","Q","R","S","T","U","V","W","X","Y","Z">>
LowerChars == <<"a","b","c","d","e","f","g","h","i","j","k","l","m",
                "n","o","p","q","r","s","t","u","v","w","x","y","z">>

IsUpper(c) == \E k \in DOMAIN UpperChars : UpperChars[k] = c

LowerChar(c) ==
    IF IsUpper(c)
    THEN LowerChars[CHOOSE k \in DOMAIN UpperChars : UpperChars[k] = c]
    ELSE c

\* str.lower()
lower(s) == [k \in DOMAIN s |-> LowerChar(s[k])]

northeast == <<"n","o","r","t","h","e","a","s","t">>
northwest == <<"n","o","r","t","h","w","e","s","t">>
southeast == <<"s","o","u","t","h","e","a","s","t">>
southwest == <<"s","o","u","t","h","w","e","s","t">>
male == <<"m","a","l","e">>
female == <<"f","e","m","a","l","e">>

valid_regions == {northeast, northwest, southeast, southwest}
valid_genders == {male, female}

---------------------------------------------------------------------------
(* Floats *)

Float(n) == [nan |-> FALSE, val |-> n]
NaN == [nan |-> TRUE, val |-> 0]

\* a <= b on floats: false when either side is NaN
FloatLe(a, b) == ~a.nan /\ ~b.nan /\ a.val <= b.val

---------------------------------------------------------------------------
(* PredictionInput: the request schema and its validators *)

Fields == {"age", "bmi", "children", "smoker", "region", "gender"}

\* Each validator returns [ok, value]: ok is FALSE where the code raises
\* ValueError, value is what the code returns.
\* faulty variant: the upper bound is not checked
validate_age_no_upper(v) == [ok |-> 0 <= v, value |-> v]

validate_age(v) == [ok |-> (0 <= v /\ v <= 100), value |-> v]

validate_bmi(v) ==
    [ok |-> (FloatLe(Float(10), v) /\ FloatLe(v, Float(50))), value |-> v]

validate_children(v) == [ok |-> (0 <= v /\ v <= 10), value |-> v]

\* faulty variant: the membership test is missing
validate_region_any(v) == [ok |-> TRUE, value |-> lower(v)]

validate_region(v) == [ok |-> lower(v) \in valid_regions, value |-> lower(v)]

\* faulty variant: returns v, not v.lower()
validate_gender_as_given(v) == [ok |-> lower(v) \in valid_genders, value |-> v]

validate_gender(v) == [ok |-> lower(v) \in valid_genders, value |-> lower(v)]

\* pydantic: every field is required, and every field's validator must pass
SchemaAccepts(body) ==
    /\ Fields \subseteq DOMAIN body
    /\ validate_age(body.age).ok
    /\ validate_bmi(body.bmi).ok
    /\ validate_children(body.children).ok
    /\ validate_region(body.region).ok
    /\ validate_gender(body.gender).ok

\* input_data.dict(): the validators' return values
SchemaDict(body) ==
    [age |-> validate_age(body.age).value,
     bmi |-> validate_bmi(body.bmi).value,
     children |-> validate_children(body.children).value,
     smoker |-> body.smoker,
     region |-> validate_region(body.region).value,
     gender |-> validate_gender(body.gender).value]

---------------------------------------------------------------------------
(* utils.validate_input_data on a single-row frame: [ok, errors] *)

required_columns == {"age", "bmi", "children", "smoker", "region", "gender"}

\* faulty variant: the lower bounds are exclusive
validate_input_data_exclusive(row) ==
    IF ~(required_columns \subseteq DOMAIN row) THEN [ok |-> FALSE, errors |-> 1]
    ELSE IF ~(0 < row.age /\ row.age <= 100) THEN [ok |-> FALSE, errors |-> 1]
    ELSE IF ~(FloatLe(Float(10), row.bmi) /\ FloatLe(row.bmi, Float(50)))
         THEN [ok |-> FALSE, errors |-> 1]
    ELSE IF ~(0 < row.children /\ row.children <= 10)
         THEN [ok |-> FALSE, errors |-> 1]
    ELSE [ok |-> TRUE, errors |-> 0]

validate_input_data(row) ==
    IF ~(required_columns \subseteq DOMAIN row) THEN [ok |-> FALSE, errors |-> 1]
    ELSE IF ~(0 <= row.age /\ row.age <= 100) THEN [ok |-> FALSE, errors |-> 1]
    ELSE IF ~(FloatLe(Float(10), row.bmi) /\ FloatLe(row.bmi, Float(50)))
         THEN [ok |-> FALSE, errors |-> 1]
    ELSE IF ~(0 <= row.children /\ row.children <= 10)
         THEN [ok |-> FALSE, errors |-> 1]
    ELSE [ok |-> TRUE, errors |-> 0]

---------------------------------------------------------------------------
(* The registry and the models it may hand out *)

\* A loaded model: has_version says whether the object carries a `version`
\* attribute; behaviour is what its predict does on any row.
Models ==
    { [loaded |-> TRUE, has_version |-> TRUE, version |-> "7", behaviour |-> "returns"],
      [loaded |-> TRUE, has_version |-> FALSE, version |-> "", behaviour |-> "returns"],
      [loaded |-> TRUE, has_version |-> TRUE, version |-> "7", behaviour |-> "raises_ValueError"],
      [loaded |-> TRUE, has_version |-> TRUE, version |-> "8", behaviour |-> "raises_RuntimeError"] }

\* the global `model` before startup_event has assigned it
Unset == [loaded |-> FALSE, has_version |-> FALSE, version |-> "", behaviour |-> ""]

\* mlflow.pyfunc.load_model returns a model or raises
get_latest_model ==
    { [ok |-> TRUE, model |-> m] : m \in Models } \cup { [ok |-> FALSE, model |-> Unset] }

NoResult == [state |-> "none", value |-> 0, exc |-> "", msg |-> ""]
Returned(v) == [state |-> "ok", value |-> v, exc |-> "", msg |-> ""]
Raised(t, m) == [state |-> "raised", value |-> 0, exc |-> t, msg |-> m]

\* a deterministic stub regressor
Estimate(row) ==
    1000 + 10 * row.age + 100 * row.children + (IF row.smoker THEN 5000 ELSE 0)

\* model.predict(data)
ModelPredict(m, row) ==
    CASE m.behaviour = "returns" -> Returned(Estimate(row))
      [] m.behaviour = "raises_ValueError" -> Raised("ValueError", "unknown category")
      [] OTHER -> Raised("RuntimeError", "model failure")

\* getattr(model, 'version', 'unknown')
model_version(m) == IF m.has_version THEN m.version ELSE "unknown"

\* log_model_access(logger, "prediction_service", "production_model", action)
log_model_access(log, action, cause) ==
    Append(log, [action |-> action, cause |-> cause])

---------------------------------------------------------------------------
(* Request bodies *)

SouthWest == <<"S","o","u","t","h","W","e","s","t">>
atlantis == <<"a","t","l","a","n","t","i","s">>
FEMALE == <<"F","E","M","A","L","E">>
x_gender == <<"x">>

Ages == {-1, 0, 100, 101}
Bmis == {Float(9), Float(10), Float(50), Float(51), NaN}
ChildrenCounts == {-1, 0, 10, 11}
RegionInputs == {southwest, SouthWest, atlantis}
GenderInputs == {male, FEMALE, x_gender}

Drop(body, f) == [k \in DOMAIN body \ {f} |-> body[k]]

FullBodies ==
    [age : Ages, bmi : Bmis, children : ChildrenCounts, smoker : BOOLEAN,
     region : RegionInputs, gender : GenderInputs]

\* every combination of field values, and each of them with one key absent
Bodies == FullBodies \cup { Drop(b, f) : b \in FullBodies, f \in Fields }

LowerBody ==
    [age |-> 0, bmi |-> Float(10), children |-> 0, smoker |-> FALSE,
     region |-> southwest, gender |-> male]
MixedBody ==
    [age |-> 100, bmi |-> Float(50), children |-> 10, smoker |-> TRUE,
     region |-> SouthWest, gender |-> FEMALE]

\* two valid bodies and bodies with exactly one field violated or absent
SmallBodies ==
    { LowerBody, MixedBody,
      [LowerBody EXCEPT !.age = 101], [MixedBody EXCEPT !.bmi = NaN],
      [LowerBody EXCEPT !.children = 11], [MixedBody EXCEPT !.region = atlantis],
      [LowerBody EXCEPT !.gender = x_gender], Drop(MixedBody, "gender") }

NoBody == [none |-> TRUE]
NoResp ==
    [status |-> 0, prediction |-> 0, model_version |-> "", detail |-> "",
     prediction_time |-> FALSE, process_time |-> FALSE]
NoHealth == [asked |-> FALSE, status |-> 0, body |-> "", timestamp |-> FALSE, phase |-> ""]

---------------------------------------------------------------------------
(* State after the module is imported, before the server starts *)

Init ==
    /\ phase = "starting"
    /\ model = Unset
    /\ pc = [i \in Slots |-> "idle"]
    /\ raw = [i \in Slots |-> NoBody]
    /\ data = [i \in Slots |-> NoBody]
    /\ called = [i \in Slots |-> FALSE]
    /\ result = [i \in Slots |-> NoResult]
    /\ resp = [i \in Slots |-> NoResp]
    /\ running = 0
    /\ received = 0
    /\ PREDICTION_COUNTER = 0
    /\ PREDICTION_LATENCY = 0
    /\ DATA_VALIDATION_ERRORS = 0
    /\ auditLog = <<>>
    /\ healthResp = NoHealth

metrics == <<PREDICTION_COUNTER, PREDICTION_LATENCY, DATA_VALIDATION_ERRORS>>
request == <<pc, raw, data, called, result, resp, running, received>>

\* faulty variant: the load error is logged and not re-raised
startup_event_swallows ==
    /\ phase = "starting"
    /\ \E o \in get_latest_model :
          IF o.ok
          THEN /\ model' = o.model
               /\ auditLog' = log_model_access(auditLog, "model_loaded", "")
          ELSE UNCHANGED <<model, auditLog>>
    /\ phase' = "serving"
    /\ UNCHANGED <<request, metrics, healthResp>>

\* startup_event: assign the global model, or re-raise and abort the start
startup_event ==
    /\ phase = "starting"
    /\ \E o \in get_latest_model :
          IF o.ok
          THEN /\ model' = o.model
               /\ auditLog' = log_model_access(auditLog, "model_loaded", "")
               /\ phase' = "serving"
          ELSE /\ phase' = "failed"
               /\ UNCHANGED <<model, auditLog>>
    /\ UNCHANGED <<request, metrics, healthResp>>

---------------------------------------------------------------------------
(* POST /predict, one slot per request in flight.  The handlers are        *)
(* coroutines without an await: once the event loop has entered one, it    *)
(* runs it to its end (running = i) before anything else is scheduled.     *)

\* response.headers["X-Process-Time"] = str(process_time)
add_process_time_header(r) == [r EXCEPT !.process_time = TRUE]

\* a request arrives: the middleware takes start_time and calls call_next
Receive(i, bodies, max) ==
    /\ phase = "serving"
    /\ running = 0
    /\ pc[i] = "idle"
    /\ received < max
    /\ received' = received + 1
    /\ pc' = [pc EXCEPT ![i] = "received"]
    /\ \E body \in bodies : raw' = [raw EXCEPT ![i] = body]
    /\ UNCHANGED <<phase, model, data, called, result, resp, running, metrics,
                   auditLog, healthResp>>

\* the route reads the body and hands it to the PredictionInput schema
ParseBody(i) ==
    /\ running = 0
    /\ pc[i] = "received"
    /\ pc' = [pc EXCEPT ![i] = "validating"]
    /\ UNCHANGED <<phase, model, raw, data, called, result, resp, running,
                   received, metrics, auditLog, healthResp>>

\* PredictionInput(**body): the validated model, or a validation error
Validate(i) ==
    /\ running = 0
    /\ pc[i] = "validating"
    /\ IF SchemaAccepts(raw[i])
       THEN /\ pc' = [pc EXCEPT ![i] = "validated"]
            /\ data' = [data EXCEPT ![i] = SchemaDict(raw[i])]
       ELSE /\ pc' = [pc EXCEPT ![i] = "rejected"]
            /\ UNCHANGED data
    /\ UNCHANGED <<phase, model, raw, called, result, resp, running, received,
                   metrics, auditLog, healthResp>>

\* faulty variant: a schema violation is passed on to the handler
RejectResponse_passes_on(i) ==
    /\ running = 0
    /\ pc[i] = "rejected"
    /\ pc' = [pc EXCEPT ![i] = "validated"]
    /\ data' = [data EXCEPT ![i] = LowerBody]
    /\ UNCHANGED <<phase, model, raw, called, result, resp, running, received,
                   metrics, auditLog, healthResp>>

\* the framework answers a schema violation itself: 422, handler never entered
RejectResponse(i) ==
    /\ running = 0
    /\ pc[i] = "rejected"
    /\ pc' = [pc EXCEPT ![i] = "responded"]
    /\ resp' = [resp EXCEPT ![i] = add_process_time_header(
                   [NoResp EXCEPT !.status = 422, !.detail = "validation error"])]
    /\ UNCHANGED <<phase, model, raw, data, called, result, running, received,
                   metrics, auditLog, healthResp>>

\* make_prediction up to the call of predict: the global is looked up
\* (NameError when it was never assigned), then the monitor_prediction
\* wrapper counts the call
make_prediction(i) ==
    /\ running = 0
    /\ pc[i] = "validated"
    /\ running' = i
    /\ IF model.loaded
       THEN /\ pc' = [pc EXCEPT ![i] = "predicting"]
            /\ PREDICTION_COUNTER' = PREDICTION_COUNTER + 1
            /\ UNCHANGED result
       ELSE /\ pc' = [pc EXCEPT ![i] = "failed"]
            /\ result' = [result EXCEPT ![i] = Raised("NameError", "name 'model' is not defined")]
            /\ UNCHANGED PREDICTION_COUNTER
    /\ UNCHANGED <<phase, model, raw, data, called, resp, received,
                   PREDICTION_LATENCY, DATA_VALIDATION_ERRORS, auditLog, healthResp>>

\* predict(model, data) inside the wrapper's `with PREDICTION_LATENCY.time()`
predict(i) ==
    /\ running = i
    /\ pc[i] = "predicting"
    /\ LET v == validate_input_data(data[i])
           r == IF v.ok THEN ModelPredict(model, data[i])
                        ELSE Raised("ValueError", "Invalid input data format")
       IN /\ DATA_VALIDATION_ERRORS' = DATA_VALIDATION_ERRORS + v.errors
          /\ called' = [called EXCEPT ![i] = v.ok]
          /\ result' = [result EXCEPT ![i] = r]
          /\ auditLog' = IF r.state = "ok"
                         THEN log_model_access(auditLog, "prediction_success", "")
                         ELSE log_model_access(auditLog, "prediction_error", r.msg)
          /\ pc' = [pc EXCEPT ![i] = IF r.state = "ok" THEN "succeeded" ELSE "failed"]
    /\ PREDICTION_LATENCY' = PREDICTION_LATENCY + 1
    /\ UNCHANGED <<phase, model, raw, data, resp, running, received,
                   PREDICTION_COUNTER, healthResp>>

\* except ValueError -> 400; except Exception -> 500
ExceptionStatus(exc) == IF exc = "ValueError" THEN 400 ELSE 500

\* faulty variant: the prediction is offset by the number of calls made so far
PredictionOutput_counted(r, m) ==
    [NoResp EXCEPT !.status = 200,
                   !.prediction = r.value + PREDICTION_COUNTER,
                   !.model_version = model_version(m),
                   !.prediction_time = TRUE]

\* PredictionOutput(prediction=float(prediction[0]),
\*                  model_version=getattr(model, 'version', 'unknown'),
\*                  prediction_time=datetime.now().isoformat())
PredictionOutput(r, m) ==
    [NoResp EXCEPT !.status = 200,
                   !.prediction = r.value,
                   !.model_version = model_version(m),
                   !.prediction_time = TRUE]

\* faulty variant: the handler loads the registry's model again before it answers
make_prediction_return_reload(i) ==
    /\ running = i
    /\ pc[i] = "succeeded"
    /\ PREDICTION_LATENCY' = PREDICTION_LATENCY + 1
    /\ \E m \in Models : model' = m
    /\ resp' = [resp EXCEPT ![i] = add_process_time_header(
                   PredictionOutput(result[i], model'))]
    /\ pc' = [pc EXCEPT ![i] = "responded"]
    /\ running' = 0
    /\ UNCHANGED <<phase, raw, data, called, result, received,
                   PREDICTION_COUNTER, DATA_VALIDATION_ERRORS, auditLog, healthResp>>

\* make_prediction after predict returned: observe the latency, build the
\* PredictionOutput
make_prediction_return(i) ==
    /\ running = i
    /\ pc[i] = "succeeded"
    /\ PREDICTION_LATENCY' = PREDICTION_LATENCY + 1
    /\ resp' = [resp EXCEPT ![i] = add_process_time_header(
                   PredictionOutput(result[i], model))]
    /\ pc' = [pc EXCEPT ![i] = "responded"]
    /\ running' = 0
    /\ UNCHANGED <<phase, model, raw, data, called, result, received,
                   PREDICTION_COUNTER, DATA_VALIDATION_ERRORS, auditLog, healthResp>>

\* make_prediction's except clauses: the exception becomes an HTTPException
make_prediction_except(i) ==
    /\ running = i
    /\ pc[i] = "failed"
    /\ resp' = [resp EXCEPT ![i] = add_process_time_header(
                   [NoResp EXCEPT !.status = ExceptionStatus(result[i].exc),
                                  !.detail = result[i].msg])]
    /\ pc' = [pc EXCEPT ![i] = "responded"]
    /\ running' = 0
    /\ UNCHANGED <<phase, model, raw, data, called, result, received, metrics,
                   auditLog, healthResp>>

\* the response has been sent; the request's objects are discarded
Release(i) ==
    /\ running = 0
    /\ pc[i] = "responded"
    /\ pc' = [pc EXCEPT ![i] = "idle"]
    /\ raw' = [raw EXCEPT ![i] = NoBody]
    /\ data' = [data EXCEPT ![i] = NoBody]
    /\ called' = [called EXCEPT ![i] = FALSE]
    /\ result' = [result EXCEPT ![i] = NoResult]
    /\ resp' = [resp EXCEPT ![i] = NoResp]
    /\ UNCHANGED <<phase, model, running, received, metrics, auditLog, healthResp>>

---------------------------------------------------------------------------
(* GET /health *)

\* faulty variant: the endpoint reports on the loaded model (a readiness check)
health_check_reads_model ==
    /\ phase = "serving"
    /\ running = 0
    /\ healthResp' = IF model.behaviour = "returns"
                     THEN [asked |-> TRUE, status |-> 200, body |-> "healthy",
                           timestamp |-> TRUE, phase |-> phase]
                     ELSE [asked |-> TRUE, status |-> 503, body |-> "unhealthy",
                           timestamp |-> TRUE, phase |-> phase]
    /\ UNCHANGED <<phase, model, request, metrics, auditLog>>

\* return {"status": "healthy", "timestamp": datetime.now().isoformat()}
health_check ==
    /\ phase = "serving"
    /\ running = 0
    /\ healthResp' = [asked |-> TRUE, status |-> 200, body |-> "healthy",
                      timestamp |-> TRUE, phase |-> phase]
    /\ UNCHANGED <<phase, model, request, metrics, auditLog>>

\* startup_event re-raised: the server never came up, and a client's
\* GET /health gets no response
health_refused ==
    /\ phase = "failed"
    /\ healthResp' = [asked |-> TRUE, status |-> 0, body |-> "",
                      timestamp |-> FALSE, phase |-> phase]
    /\ UNCHANGED <<phase, model, request, metrics, auditLog>>

---------------------------------------------------------------------------
(* Specifications *)

Step(i) ==
    \/ ParseBody(i)
    \/ Validate(i)
    \/ RejectResponse(i)
    \/ make_prediction(i)
    \/ predict(i)
    \/ make_prediction_return(i)
    \/ make_prediction_except(i)
    \/ Release(i)

\* requests handled concurrently, drawn from SmallBodies
Next ==
    \/ startup_event
    \/ health_check
    \/ health_refused
    \/ \E i \in Slots : Receive(i, SmallBodies, MaxRequests)
    \/ \E i \in Slots : Step(i)

Spec == Init /\ [][Next]_vars

\* one request at a time, drawn from all of Bodies
NextSeq ==
    \/ startup_event
    \/ health_check
    \/ health_refused
    \/ Receive(1, Bodies, MaxRequestsSeq)
    \/ Step(1)

SpecSeq == Init /\ [][NextSeq]_vars

\* the event loop runs every ready coroutine
Fairness == \A i \in Slots : WF_vars(Step(i))

LiveSpec == Init /\ [][Next]_vars /\ Fairness

---------------------------------------------------------------------------
(* Properties *)

Numeric4xx(status) == 400 <= status /\ status <= 499
Numeric5xx(status) == 500 <= status /\ status <= 599

\* the documented constraints, stated on one field of a body that carries it
InRange(body, f) ==
    CASE f = "age" -> 0 <= body.age /\ body.age <= 100
      [] f = "bmi" -> ~body.bmi.nan /\ 10 <= body.bmi.val /\ body.bmi.val <= 50
      [] f = "children" -> 0 <= body.children /\ body.children <= 10
      [] f = "smoker" -> body.smoker \in BOOLEAN
      [] f = "region" -> body.region \in valid_regions
      [] f = "gender" -> body.gender \in valid_genders

\* w is v with every upper-case letter replaced by its lower-case letter
IsLowerCaseOf(w, v) ==
    /\ Len(w) = Len(v)
    /\ \A k \in 1..Len(v) :
          \/ ~IsUpper(v[k]) /\ w[k] = v[k]
          \/ \E n \in DOMAIN UpperChars : v[k] = UpperChars[n] /\ w[k] = LowerChars[n]

\* in range, with region and gender compared in any letter case
InRangeAnyCase(body, f) ==
    CASE f = "region" -> \E r \in valid_regions : IsLowerCaseOf(r, body.region)
      [] f = "gender" -> \E g \in valid_genders : IsLowerCaseOf(g, body.gender)
      [] OTHER -> InRange(body, f)

Violated(body) == { f \in Fields \cap DOMAIN body : ~InRangeAnyCase(body, f) }

\* all six fields are present and exactly one of them is outside its range
SingleFieldViolation(body) ==
    Fields \subseteq DOMAIN body /\ Cardinality(Violated(body)) = 1

\* C1: model.predict is invoked only on a row whose six fields are all
\* present and within range (age 0..100, bmi 10..50, children 0..10, region
\* and gender in their enumerations), for a request that carried all six.
C1_PredictOnlyInRange ==
    \A i \in Slots :
        called[i] =>
            /\ Fields \subseteq DOMAIN raw[i]
            /\ Fields \subseteq DOMAIN data[i]
            /\ \A f \in Fields : InRange(data[i], f)

C1_Witness ==
    \E i \in Slots :
        /\ called[i]
        /\ pc[i] = "succeeded"
        /\ raw[i].region = SouthWest
        /\ data[i].age = 100

\* C2: no step of a request with exactly one field out of range changes
\* PREDICTION_COUNTER, and its response is a 4xx.
C2_SingleViolationRejected ==
    [][\A i \in Slots :
          (SingleFieldViolation(raw[i]) /\ pc'[i] # pc[i]) =>
              /\ PREDICTION_COUNTER' = PREDICTION_COUNTER
              /\ pc'[i] \in {"validating", "rejected", "responded", "idle"}
              /\ (pc'[i] = "responded" => Numeric4xx(resp'[i].status))]_vars

C2_Witness ==
    \E i \in Slots :
        /\ pc[i] = "responded"
        /\ Violated(raw[i]) = {"bmi"}
        /\ raw[i].bmi = NaN
        /\ resp[i].status = 422
        /\ PREDICTION_COUNTER = 1

\* C3 (as claimed): whenever the model invocation raised, of whatever
\* exception type, the response is a 5xx and the audit log holds a
\* prediction_error entry with the cause.
C3_ModelErrorIs5xx ==
    \A i \in Slots :
        (pc[i] = "responded" /\ called[i] /\ result[i].state = "raised") =>
            /\ Numeric5xx(resp[i].status)
            /\ \E k \in DOMAIN auditLog :
                  auditLog[k] = [action |-> "prediction_error", cause |-> result[i].msg]

\* C4: a request within the documented ranges, region and gender in any
\* letter case, passes validation; region and gender handed on are the
\* lower-case forms of the submitted ones, the other fields are unchanged.
C4_ValidNormalized ==
    \A i \in Slots :
        ( /\ pc[i] \notin {"idle", "received", "validating"}
          /\ Fields \subseteq DOMAIN raw[i]
          /\ Violated(raw[i]) = {} ) =>
            /\ pc[i] # "rejected"
            /\ Fields \subseteq DOMAIN data[i]
            /\ IsLowerCaseOf(data[i].region, raw[i].region)
            /\ IsLowerCaseOf(data[i].gender, raw[i].gender)
            /\ data[i].region \in valid_regions
            /\ data[i].gender \in valid_genders
            /\ data[i].age = raw[i].age
            /\ data[i].bmi = raw[i].bmi
            /\ data[i].children = raw[i].children
            /\ data[i].smoker = raw[i].smoker

C4_Witness ==
    \E i \in Slots :
        /\ pc[i] = "validated"
        /\ raw[i].region = SouthWest /\ data[i].region = southwest
        /\ raw[i].gender = FEMALE /\ data[i].gender = female

\* C5: when the load fails at startup the process never serves: no request
\* is ever received, and every request in flight sees the model assigned.
C5_LoadFailureFatal ==
    /\ phase = "failed" => (received = 0 /\ \A i \in Slots : pc[i] = "idle")
    /\ \A i \in Slots : pc[i] # "idle" => (phase = "serving" /\ model.loaded)

C5_Witness == phase = "failed" /\ ~model.loaded /\ healthResp.asked

\* C6: the global model is written by the startup step alone: any step that
\* changes it is the one that leaves "starting".
C6_ModelAssignedOnce ==
    [][model' # model => (phase = "starting" /\ phase' = "serving" /\ model = Unset)]_vars

C6_Witness ==
    /\ phase = "serving"
    /\ model.loaded
    /\ pc[1] = "responded" /\ resp[1].status = 200
    /\ pc[2] = "predicting"
    /\ healthResp.asked
    /\ received = MaxRequests

\* C7 (as claimed): every GET /health is answered 200 "healthy" with a
\* timestamp, also when the model failed to load.
C7_HealthAlways200 ==
    healthResp.asked =>
        (healthResp.status = 200 /\ healthResp.body = "healthy" /\ healthResp.timestamp)

\* C7 (amended): every GET /health the process handles is answered 200
\* "healthy" with a timestamp, whatever model is loaded; after a failed load
\* the process is not serving and the request gets no response.
C7_HealthWhileServing ==
    healthResp.asked =>
        IF healthResp.phase = "serving"
        THEN healthResp.status = 200 /\ healthResp.body = "healthy" /\ healthResp.timestamp
        ELSE healthResp.phase = "failed" /\ healthResp.status = 0

C7_Witness ==
    /\ healthResp.asked
    /\ healthResp.status = 200
    /\ model.behaviour = "raises_RuntimeError"
    /\ \E i \in Slots : pc[i] = "responded" /\ resp[i].status = 500

\* C8 (as claimed): every rejection of a request by input validation
\* increments DATA_VALIDATION_ERRORS.
C8_RejectionCounted ==
    [][\A i \in Slots :
          (pc[i] = "validating" /\ pc'[i] = "rejected") =>
              DATA_VALIDATION_ERRORS' = DATA_VALIDATION_ERRORS + 1]_vars

Allowed ==
    { <<"idle", "received">>, <<"received", "validating">>,
      <<"validating", "rejected">>, <<"validating", "validated">>,
      <<"rejected", "responded">>, <<"validated", "predicting">>,
      <<"predicting", "succeeded">>, <<"predicting", "failed">>,
      <<"succeeded", "responded">>, <<"failed", "responded">>,
      <<"responded", "idle">> }

Outcome(status) ==
    { o \in {"client error", "success", "server error"} :
        \/ o = "client error" /\ Numeric4xx(status)
        \/ o = "success" /\ status = 200
        \/ o = "server error" /\ Numeric5xx(status) }

\* C9: a request moves only along Received -> Validating -> {Rejected |
\* Validated}, Validated -> Predicting -> {Succeeded | Failed}, and from
\* Rejected, Succeeded or Failed to Responded; every received request
\* reaches Responded, with exactly one outcome.
C9_RequestStateMachine ==
    /\ [][\A i \in Slots : pc'[i] # pc[i] => <<pc[i], pc'[i]>> \in Allowed]_vars
    /\ [](\A i \in Slots : pc[i] = "responded" => Cardinality(Outcome(resp[i].status)) = 1)
    /\ \A i \in Slots : (pc[i] = "received") ~> (pc[i] = "responded")

C9_Witness ==
    /\ pc[1] = "responded" /\ resp[1].status = 422
    /\ pc[2] = "responded" /\ resp[2].status = 200

\* C10: two requests with the same valid body, answered by the same loaded
\* model, get the same prediction and model_version, whichever was handled
\* first and whatever was handled in between.
C10_SameRequestSameAnswer ==
    \A i, j \in Slots :
        ( /\ pc[i] = "responded" /\ pc[j] = "responded"
          /\ raw[i] = raw[j]
          /\ resp[i].status = 200 ) =>
            /\ resp[j].status = 200
            /\ resp[j].prediction = resp[i].prediction
            /\ resp[j].model_version = resp[i].model_version

C10_Witness ==
    /\ pc[1] = "responded" /\ pc[2] = "responded"
    /\ raw[1] = MixedBody /\ raw[2] = MixedBody
    /\ resp[1].status = 200 /\ resp[2].status = 200
    /\ resp[1].model_version = "unknown"
    /\ PREDICTION_COUNTER = 3

\* C11 (as claimed): once no handler is running, PREDICTION_LATENCY holds
\* exactly one observation per counted prediction, whether the invocations
\* succeeded or raised.
C11_OneObservationPerPrediction ==
    running = 0 => PREDICTION_LATENCY = PREDICTION_COUNTER

\* C12: the executor's validate_input_data accepts every row the schema
\* let through: on the serving path it never raises 'Invalid input data
\* format' and DATA_VALIDATION_ERRORS stays 0.
C12_RevalidationNeverRejects ==
    /\ DATA_VALIDATION_ERRORS = 0
    /\ \A i \in Slots :
          /\ pc[i] \in {"validated", "predicting"} => validate_input_data(data[i]).ok
          /\ pc[i] \in {"succeeded", "failed", "responded"} /\ data[i] # NoBody => called[i]
          /\ result[i].msg # "Invalid input data format"

C12_Witness ==
    \E i \in Slots :
        /\ pc[i] = "failed"
        /\ called[i]
        /\ data[i].age = 0 /\ data[i].children = 0
        /\ data[i].bmi = Float(10)
        /\ received = MaxRequestsSeq
        /\ DATA_VALIDATION_ERRORS = 0

====
